---- MODULE Spec2Model ----
(***************************************************************************)
(* Model of two revisions of job_application_automator.py:                 *)
(*   r20240925103923 (the latest) and r20240921020456.                     *)
(* The script is a linear Selenium program.  Its state is the module-level *)
(* configuration, the browser session (open windows, focused window, the   *)
(* session history of the listings window), the job cards found, the       *)
(* applied_jobs set and the position in main / apply_to_job.  Every        *)
(* WebDriver call between scrolling a card and clicking Submit can raise;  *)
(* the outcome of each call is a nondeterministic choice.  The window      *)
(* bookkeeping after Submit and in the finally clause (window_handles,     *)
(* close, switch_to.window, back) raises only where WebDriver must: on a   *)
(* switch to a handle that is no longer open.                              *)
(***************************************************************************)
EXTENDS Integers, Sequences, FiniteSets, TLC

VARIABLES rev, cfg, resumeIsFile, pc, exitStatus, out, drivers, quitCalls,
          log, handles, focus, hist, cards, idx, applied, submitted,
          jobTitle, origWin, exc, entry, steps

vars == <<rev, cfg, resumeIsFile, pc, exitStatus, out, drivers, quitCalls,
          log, handles, focus, hist, cards, idx, applied, submitted,
          jobTitle, origWin, exc, entry, steps>>

\* ------------------------------------------------------------------ bounds
MaxCards == 2

\* ---------------------------------------------------------------- revisions
Latest == "r20240925103923"
Rev0921 == "r20240921020456"
Revisions == {Latest, Rev0921}

\* ------------------------------------------------------------ configuration
\* Keys each revision reads from config['DEFAULT'], in the order it reads them.
KeysLatest == <<"SearchTerms", "Email", "Password",
                "PauseDurationMin", "PauseDurationMax">>
Keys0921 == <<"SearchTerms", "ResumePath", "PauseDuration", "Email", "Password">>

IntKeys == {"PauseDurationMin", "PauseDurationMax", "PauseDuration"}

\* Values as configparser stores them (already stripped): sequences of characters.
TextValues == { <<"x">>, <<"%">> }
PauseValues == { <<"1">>, <<"2">>, <<"-", "1">>, <<"x">>, <<"1", "x">>, <<>>,
                 <<"1", "%">>, <<"%", "%">>, <<"-">> }

ValuesOf(k) == IF k \in IntKeys THEN PauseValues ELSE TextValues

Range(s) == { s[i] : i \in 1..Len(s) }

\* A config file: each key is either absent or bound to a value.
Configs(keys) ==
  UNION { { f \in [K -> TextValues \cup PauseValues] :
              \A k \in K : f[k] \in ValuesOf(k) } : K \in SUBSET Range(keys) }

\* configparser BasicInterpolation: "%%" is a literal "%", any other "%" is an
\* InterpolationSyntaxError.  Result: [ok, val].
RECURSIVE Interpolate(_)
Interpolate(v) ==
  IF v = <<>> THEN [ok |-> TRUE, val |-> <<>>]
  ELSE IF Head(v) = "%"
       THEN IF Len(v) >= 2 /\ v[2] = "%"
            THEN LET r == Interpolate(SubSeq(v, 3, Len(v)))
                 IN [ok |-> r.ok, val |-> <<"%">> \o r.val]
            ELSE [ok |-> FALSE, val |-> <<>>]
       ELSE LET r == Interpolate(Tail(v))
            IN [ok |-> r.ok, val |-> <<Head(v)>> \o r.val]

Digit(c) == CASE c = "0" -> 0 [] c = "1" -> 1 [] c = "2" -> 2 [] OTHER -> -1

RECURSIVE DigitsValue(_, _)
DigitsValue(s, acc) ==
  IF s = <<>> THEN acc ELSE DigitsValue(Tail(s), acc * 10 + Digit(Head(s)))

AllDigits(s) == s # <<>> /\ \A i \in 1..Len(s) : Digit(s[i]) >= 0

\* Python int(str): optional sign followed by at least one digit.
PyInt(v) ==
  LET signed == v # <<>> /\ Head(v) \in {"-", "+"}
      body == IF signed THEN Tail(v) ELSE v
  IN IF AllDigits(body)
     THEN [ok |-> TRUE,
           val |-> IF signed /\ Head(v) = "-" THEN 0 - DigitsValue(body, 0)
                   ELSE DigitsValue(body, 0)]
     ELSE [ok |-> FALSE, val |-> 0]

\* config['DEFAULT'][k]: "KeyError", "InterpolationError" or "ok".
Lookup(c, k) ==
  IF k \notin DOMAIN c THEN "KeyError"
  ELSE IF ~Interpolate(c[k]).ok THEN "InterpolationError"
  ELSE "ok"

\* int(config['DEFAULT'][k])
LookupInt(c, k) ==
  IF Lookup(c, k) # "ok" THEN Lookup(c, k)
  ELSE IF ~PyInt(Interpolate(c[k]).val).ok THEN "ValueError"
  ELSE "ok"

IntOf(c, k) == PyInt(Interpolate(c[k]).val).val

\* First failure met when reading the keys in order ("ok" when none fails).
RECURSIVE FirstFailure(_, _)
FirstFailure(c, keys) ==
  IF keys = <<>> THEN "ok"
  ELSE LET r == IF Head(keys) \in IntKeys THEN LookupInt(c, Head(keys))
                ELSE Lookup(c, Head(keys))
       IN IF r # "ok" THEN r ELSE FirstFailure(c, Tail(keys))

\* LatestConfigResult without the except ValueError clause.
LatestConfigResultNoValueError(c) ==
  LET plain == FirstFailure(c, SubSeq(KeysLatest, 1, 3))
      pause == FirstFailure(c, SubSeq(KeysLatest, 4, 5))
  IN IF plain # "ok" THEN "crash"
     ELSE IF pause = "KeyError" THEN "config_error"
     ELSE IF pause # "ok" THEN "crash"
     ELSE "ok"

\* Latest, lines 26-39: the three text keys are read outside any try block; the
\* two pause keys inside try/except KeyError/ValueError.
LatestConfigResult(c) ==
  LET plain == FirstFailure(c, SubSeq(KeysLatest, 1, 3))
      pause == FirstFailure(c, SubSeq(KeysLatest, 4, 5))
  IN IF plain # "ok" THEN "crash"
     ELSE IF pause \in {"KeyError", "ValueError"} THEN "config_error"
     ELSE IF pause # "ok" THEN "crash"
     ELSE "ok"

\* 20240921020456, lines 27-37: nothing is caught; then the resume path check.
Rev0921ConfigResult(c, isFile) ==
  IF FirstFailure(c, Keys0921) # "ok" THEN "crash"
  ELSE IF ~isFile THEN "resume_missing"
  ELSE "ok"

MIN_PAUSE == IntOf(cfg, "PauseDurationMin")
MAX_PAUSE == IntOf(cfg, "PauseDurationMax")
PAUSE_DURATION == IntOf(cfg, "PauseDuration")

\* ------------------------------------------------------------------- titles
\* A job title is the sequence of its lower-cased words.
Titles == { <<"senior", "angular">>, <<"java">> }
NoTitle == <<>>

\* 20240921020456 line 604: the title criterion.
MatchesCriteria(t) ==
  /\ "angular" \in Range(t)
  /\ \/ "lead" \in Range(t)
     \/ "senior" \in Range(t)
     \/ "frontend" \in Range(t)

\* A job card: the text of its title link, or no title link at all.
Cards == [hasTitle : {TRUE}, title : Titles] \cup [hasTitle : {FALSE}, title : {NoTitle}]
CardLists == UNION { [1..n -> Cards] : n \in 0..MaxCards }

\* ------------------------------------------------------------------ browser
W0 == "w0"          \* the window the driver starts with (job listings)
W1 == "w1"          \* a window opened by a click on a job title
Unbound == "unbound"

Windows == {W0, W1}
NoHistory == [w \in Windows |-> <<>>]

NoEntry == [handles |-> {}, focus |-> "none", applied |-> {}, hist |-> NoHistory]

cfgVars == <<rev, cfg, resumeIsFile>>
browserVars == <<handles, focus, hist>>
callVars == <<jobTitle, origWin, entry, steps>>
loopVars == <<cards, idx, applied, submitted>>

\* --------------------------------------------------------------------- Init
Init ==
  /\ rev \in Revisions
  /\ cfg \in (IF rev = Latest THEN Configs(KeysLatest) ELSE Configs(Keys0921))
  /\ resumeIsFile \in (IF rev = Latest THEN {FALSE} ELSE BOOLEAN)
  /\ pc = "load_config"
  /\ exitStatus = -1
  /\ out = {}
  /\ drivers = 0
  /\ quitCalls = 0
  /\ log = <<>>
  /\ handles = {}
  /\ focus = "none"
  /\ hist = NoHistory
  /\ cards = <<>>
  /\ idx = 0
  /\ applied = {}
  /\ submitted = [t \in Titles |-> 0]
  /\ jobTitle = NoTitle
  /\ origWin = Unbound
  /\ exc = "none"
  /\ entry = NoEntry
  /\ steps = <<>>

\* Process end: exit(status), an uncaught exception (status 1) or falling off
\* the end of the script (status 0).
Exit(status) ==
  /\ pc' = "exited"
  /\ exitStatus' = status

\* ------------------------------------------------------- module-level steps
\* Latest lines 23-39 / 20240921020456 lines 24-37.
LoadConfig ==
  /\ pc = "load_config"
  /\ LET r == IF rev = Latest THEN LatestConfigResult(cfg)
              ELSE Rev0921ConfigResult(cfg, resumeIsFile)
     IN \/ /\ r = "ok"
           /\ pc' = "init_driver"
           /\ log' = Append(log, "config")
           /\ UNCHANGED <<exitStatus, out>>
        \/ /\ r = "config_error"
           /\ out' = out \cup {"Configuration error"}
           /\ Exit(1)
           /\ UNCHANGED log
        \/ /\ r = "resume_missing"
           /\ out' = out \cup {"Resume file not found"}
           /\ Exit(1)
           /\ UNCHANGED log
        \/ /\ r = "crash"
           /\ out' = out \cup {"Traceback"}
           /\ Exit(1)
           /\ UNCHANGED log
  /\ UNCHANGED <<cfgVars, drivers, quitCalls, browserVars, loopVars, callVars, exc>>

\* Latest lines 58-67 / 20240921020456 lines 56-64: webdriver.Chrome(...) in a
\* try/except WebDriverException, then maximize_window() outside it.
InitWebDriver ==
  /\ pc = "init_driver"
  /\ \/ /\ drivers' = drivers + 1
        /\ handles' = {W0}
        /\ focus' = W0
        /\ hist' = [hist EXCEPT ![W0] = <<"blank">>]
        /\ \/ /\ log' = Append(log, "browser")
              /\ pc' = "entry_point"
              /\ UNCHANGED <<exitStatus, out>>
           \/ /\ out' = out \cup {"Traceback"}      \* maximize_window() raised
              /\ Exit(1)
              /\ UNCHANGED log
     \/ /\ out' = out \cup {"Error initializing Chrome WebDriver"}
        /\ Exit(1)
        /\ UNCHANGED <<drivers, handles, focus, hist, log>>
  /\ UNCHANGED <<cfgVars, quitCalls, loopVars, callVars, exc>>

\* EnterMain without the call of login_to_dice.
EnterMainSkipsLogin ==
  /\ pc = "entry_point"
  /\ applied' = {}
  /\ log' = Append(log, "main")
  /\ pc' = "search"
  /\ UNCHANGED <<cfgVars, exitStatus, out, drivers, quitCalls, browserVars,
                 cards, idx, submitted, callVars, exc>>

\* Latest lines 355-356 and 287: the entry point calls main(), which starts with
\* an empty applied_jobs set.
EnterMain ==
  /\ pc = "entry_point"
  /\ applied' = {}
  /\ log' = Append(log, "main")
  /\ pc' = IF rev = Latest THEN "search" ELSE "login"
  /\ UNCHANGED <<cfgVars, exitStatus, out, drivers, quitCalls, browserVars,
                 cards, idx, submitted, callVars, exc>>

\* driver.quit(): every window of the session is closed.
Quit ==
  /\ quitCalls' = quitCalls + 1
  /\ handles' = {}
  /\ focus' = "none"
  /\ hist' = NoHistory

\* ------------------------------------------------- login (20240921020456)
LoginSteps == <<"get_login", "wait_email", "type_email", "find_continue",
                "click_continue", "wait_password", "type_password",
                "find_sign_in", "click_sign_in", "wait_dashboard">>

LoginCaught == {"NoSuchElementException", "TimeoutException", "WebDriverException"}

\* LoginFailed without exit(1): login_to_dice returns to main.
LoginFailedReturns ==
  /\ pc = "login_failed"
  /\ out' = out \cup {"Error during login"}
  /\ Quit
  /\ pc' = "search"
  /\ UNCHANGED <<cfgVars, exitStatus, drivers, log, loopVars, callVars, exc>>

\* 20240921020456 lines 152-164: both except clauses capture a screenshot, quit
\* the browser and exit(1).  login_to_dice is called outside main's try block,
\* so the SystemExit ends the process.
LoginFailed ==
  /\ pc = "login_failed"
  /\ out' = out \cup {"Error during login"}
  /\ Quit
  /\ Exit(1)
  /\ UNCHANGED <<cfgVars, drivers, log, loopVars, callVars, exc>>

\* 20240921020456 lines 111-150: one WebDriver call of login_to_dice.  The
\* call succeeds, raises one of the caught exception classes, or raises
\* something else, which nothing catches.
LoginStep ==
  /\ pc = "login"
  /\ Len(steps) < Len(LoginSteps)
  /\ \/ /\ steps' = Append(steps, LoginSteps[Len(steps) + 1])
        /\ IF Len(steps') = Len(LoginSteps)
           THEN /\ pc' = "search"
                /\ log' = Append(log, "login")
                /\ out' = out \cup {"Successfully logged into Dice."}
                /\ hist' = [hist EXCEPT ![W0] = Append(@, "dashboard")]
           ELSE UNCHANGED <<pc, log, out, hist>>
        /\ UNCHANGED <<exc, exitStatus>>
     \/ /\ exc' \in LoginCaught
        /\ pc' = "login_failed"
        /\ UNCHANGED <<steps, log, out, hist, exitStatus>>
     \/ /\ out' = out \cup {"Traceback"}
        /\ Exit(1)
        /\ UNCHANGED <<steps, log, hist, exc>>
  /\ UNCHANGED <<cfgVars, drivers, quitCalls, handles, focus, loopVars,
                 jobTitle, origWin, entry>>

\* --------------------------------------------------------------------- main
\* An exception raised inside main's try block reaches main's handler.
RaiseInMain(kind) ==
  /\ pc' = "main_except"
  /\ exc' = kind

\* Latest lines 290-303 / 20240921020456 lines 550-565: open the home page,
\* type the search terms, click the search button.
MainSearch ==
  /\ pc = "search"
  /\ \/ /\ hist' = [hist EXCEPT ![W0] = @ \o <<"home", "listings">>]
        /\ log' = Append(log, "search")
        /\ pc' = "filter"
        /\ UNCHANGED exc
     \/ /\ RaiseInMain("Exception")
        /\ UNCHANGED <<hist, log>>
  /\ UNCHANGED <<cfgVars, exitStatus, out, drivers, quitCalls, handles, focus,
                 loopVars, callVars>>

\* ActivateEasyApplyFilter whose handlers raise an ordinary exception instead of
\* SystemExit, which main's except Exception catches.
ActivateEasyApplyFilterNoExit ==
  /\ pc = "filter"
  /\ \/ /\ \/ UNCHANGED hist
           \/ hist' = [hist EXCEPT ![W0] = Append(@, "listings")]
        /\ log' = Append(log, "filter")
        /\ pc' = "find_cards"
        /\ UNCHANGED <<out, quitCalls, handles, focus, exc>>
     \/ /\ out' = out \cup {"Error activating Easy Apply filter"}
        /\ Quit
        /\ RaiseInMain("Exception")
        /\ UNCHANGED log
  /\ UNCHANGED <<cfgVars, exitStatus, drivers, loopVars, callVars>>

\* Latest lines 108-140 / 20240921020456 lines 221-338: on success the listing
\* page carries the Easy Apply filter, either already or after driver.get of
\* the filtered URL.  Every except clause captures a screenshot, calls
\* driver.quit() and exit(1); the SystemExit travels up through main.
ActivateEasyApplyFilter ==
  /\ pc = "filter"
  /\ \/ /\ \/ UNCHANGED hist
           \/ hist' = [hist EXCEPT ![W0] = Append(@, "listings")]
        /\ log' = Append(log, "filter")
        /\ pc' = "find_cards"
        /\ UNCHANGED <<out, quitCalls, handles, focus, exc>>
     \/ /\ out' = out \cup {"Error activating Easy Apply filter"}
        /\ Quit
        /\ pc' = "main_finally"
        /\ exc' = "SystemExit"
        /\ UNCHANGED log
  /\ UNCHANGED <<cfgVars, exitStatus, drivers, loopVars, callVars>>

\* Latest lines 311-314 / 20240921020456 lines 573-577: one find_elements call
\* returns the job cards of the page.
FindJobCards ==
  /\ pc = "find_cards"
  /\ \/ /\ cards' \in CardLists
        /\ idx' = 0
        /\ log' = Append(log, "cards")
        /\ pc' = "loop"
        /\ UNCHANGED exc
     \/ /\ RaiseInMain("Exception")
        /\ UNCHANGED <<cards, idx, log>>
  /\ UNCHANGED <<cfgVars, exitStatus, out, drivers, quitCalls, browserVars,
                 applied, submitted, callVars>>

\* Latest line 336 / 20240921020456 lines 604-607: is apply_to_job called for a
\* card whose title was read?
CallsApply(r, t) == IF r = Latest THEN TRUE ELSE MatchesCriteria(t)

\* LoopNext whose NoSuchElementException handler falls through to the pause
\* instead of continuing with the next card.
LoopNextPausesAfterMissingTitle ==
  /\ pc = "loop"
  /\ IF idx = Len(cards)
     THEN /\ out' = out \cup {"Job application process completed."}
          /\ pc' = "main_finally"
          /\ UNCHANGED <<idx, jobTitle, origWin, entry, steps, exc>>
     ELSE LET card == cards[idx + 1] IN
          /\ idx' = idx + 1
          /\ \/ /\ ~card.hasTitle
                /\ out' = out \cup {"Title element not found."}
                /\ pc' = "pause"
                /\ UNCHANGED <<jobTitle, origWin, entry, steps, exc>>
             \/ /\ card.hasTitle
                /\ jobTitle' = card.title
                /\ IF CallsApply(rev, card.title)
                   THEN /\ pc' = "a_check"
                        /\ origWin' = Unbound
                        /\ steps' = <<>>
                        /\ entry' = [handles |-> handles, focus |-> focus,
                                     applied |-> applied, hist |-> hist]
                   ELSE UNCHANGED <<pc, origWin, entry, steps>>
                /\ UNCHANGED <<out, exc>>
             \/ /\ RaiseInMain("Exception")
                /\ UNCHANGED <<out, jobTitle, origWin, entry, steps>>
  /\ UNCHANGED <<cfgVars, exitStatus, drivers, quitCalls, log, browserVars,
                 cards, applied, submitted>>

\* Latest lines 316-336 / 20240921020456 lines 579-614: the head of the loop and
\* the body up to the call of apply_to_job.
LoopNext ==
  /\ pc = "loop"
  /\ IF idx = Len(cards)
     THEN /\ out' = out \cup {"Job application process completed."}
          /\ pc' = "main_finally"
          /\ UNCHANGED <<idx, jobTitle, origWin, entry, steps, exc>>
     ELSE LET card == cards[idx + 1] IN
          /\ idx' = idx + 1
          /\ \/ /\ ~card.hasTitle          \* NoSuchElementException: continue
                /\ out' = out \cup {"Title element not found."}
                /\ UNCHANGED <<pc, jobTitle, origWin, entry, steps, exc>>
             \/ /\ card.hasTitle
                /\ jobTitle' = card.title
                /\ IF CallsApply(rev, card.title)
                   THEN /\ pc' = "a_check"
                        /\ origWin' = Unbound
                        /\ steps' = <<>>
                        /\ entry' = [handles |-> handles, focus |-> focus,
                                     applied |-> applied, hist |-> hist]
                   ELSE UNCHANGED <<pc, origWin, entry, steps>>
                /\ UNCHANGED <<out, exc>>
             \/ /\ RaiseInMain("Exception")    \* any other WebDriver error
                /\ UNCHANGED <<out, jobTitle, origWin, entry, steps>>
  /\ UNCHANGED <<cfgVars, exitStatus, drivers, quitCalls, log, browserVars,
                 cards, applied, submitted>>

\* Latest lines 338-342: random.randint(MIN_PAUSE, MAX_PAUSE) raises ValueError
\* on an empty range and time.sleep raises ValueError on a negative duration.
\* 20240921020456 lines 609-611: time.sleep(PAUSE_DURATION).
Pause ==
  /\ pc = "pause"
  /\ LET durations == IF rev = Latest THEN MIN_PAUSE..MAX_PAUSE
                      ELSE {PAUSE_DURATION}
     IN \/ /\ \E d \in durations : d >= 0
           /\ pc' = "loop"
           /\ UNCHANGED exc
        \/ /\ durations = {} \/ \E d \in durations : d < 0
           /\ RaiseInMain("Exception")
  /\ UNCHANGED <<cfgVars, exitStatus, out, drivers, quitCalls, log, browserVars,
                 loopVars, callVars>>

\* Latest lines 345-347 / 20240921020456 lines 618-621: except Exception.
MainExcept ==
  /\ pc = "main_except"
  /\ out' = out \cup {"An error occurred in main()"}
  /\ exc' = "none"
  /\ pc' = "main_finally"
  /\ UNCHANGED <<cfgVars, exitStatus, drivers, quitCalls, log, browserVars,
                 loopVars, callVars>>

\* MainFinally without driver.quit().
MainFinallyNoQuit ==
  /\ pc = "main_finally"
  /\ Exit(IF exc = "SystemExit" THEN 1 ELSE 0)
  /\ UNCHANGED <<cfgVars, out, drivers, quitCalls, browserVars, log, loopVars,
                 callVars, exc>>

\* Latest lines 348-349 / 20240921020456 lines 622-623: finally: driver.quit().
\* A pending SystemExit then ends the process with its status, otherwise the
\* script runs off its end.
MainFinally ==
  /\ pc = "main_finally"
  /\ Quit
  /\ Exit(IF exc = "SystemExit" THEN 1 ELSE 0)
  /\ UNCHANGED <<cfgVars, out, drivers, log, loopVars, callVars, exc>>

\* ------------------------------------------------------------- apply_to_job
\* What no step of apply_to_job touches.
ApplyFrame ==
  UNCHANGED <<cfgVars, exitStatus, drivers, quitCalls, log, cards, idx,
              jobTitle, entry>>

\* The two except clauses of apply_to_job tell NoSuchElementException and
\* TimeoutException from every other exception.
ApplyExceptions == {"NoSuchElementOrTimeout", "OtherException"}

\* A WebDriver call inside apply_to_job's try block raises: control moves to
\* the except clauses and the call has had no effect.
RaiseInApply ==
  /\ exc' \in ApplyExceptions
  /\ pc' = "a_except"
  /\ UNCHANGED <<out, browserVars, applied, submitted, origWin, steps>>

\* return inside the try block: the finally clause runs next.
ReturnFromApply ==
  /\ pc' = "a_finally"
  /\ UNCHANGED <<browserVars, applied, submitted, origWin, steps, exc>>

\* A WebDriver call that only reads or waits: it completes or raises.
SimpleStep(here, name, next) ==
  /\ pc = here
  /\ \/ /\ steps' = Append(steps, name)
        /\ pc' = next
        /\ UNCHANGED <<out, browserVars, applied, submitted, origWin, exc>>
     \/ RaiseInApply
  /\ ApplyFrame

Top(h) == IF h = <<>> THEN "none" ELSE h[Len(h)]
Pop(h) == IF Len(h) <= 1 THEN h ELSE SubSeq(h, 1, Len(h) - 1)

\* AlreadyApplied without the membership test.
NeverAlreadyApplied(t, a) == FALSE

\* Latest line 164 (20240921020456 line 411): job_title in applied_jobs.
AlreadyApplied(t, a) == t \in a

\* Latest lines 163-166 (20240921020456 lines 410-413).
ApplyCheck ==
  /\ pc = "a_check"
  /\ IF AlreadyApplied(jobTitle, applied)
     THEN /\ out' = out \cup {"Skipping already applied job"}
          /\ ReturnFromApply
     ELSE /\ pc' = "a_scroll"
          /\ UNCHANGED <<out, browserVars, applied, submitted, origWin, steps, exc>>
  /\ ApplyFrame

\* Latest line 172 (20240921020456 line 419).
ApplyScroll == SimpleStep("a_scroll", "scroll", "a_find_title")

\* Latest line 177 (20240921020456 line 424).
ApplyFindTitle == SimpleStep("a_find_title", "find_title", "a_wait_title")

\* Latest line 181 (20240921020456 line 428).
ApplyWaitTitle == SimpleStep("a_wait_title", "wait_title", "a_click_title")

\* Latest lines 183-189 (20240921020456 lines 430-437): the native click, or
\* the JavaScript click after an intercepted click.  The site answers a click
\* by opening the job in a new window, by navigating the current window, or by
\* showing the job inside the listings page.
ApplyClickTitle ==
  /\ pc = "a_click_title"
  /\ \/ /\ \/ /\ W1 \notin handles
              /\ handles' = handles \cup {W1}
              /\ hist' = [hist EXCEPT ![W1] = <<"details">>]
              /\ steps' = Append(steps, "click_title_opened_window")
           \/ /\ hist' = [hist EXCEPT ![focus] = Append(@, "details")]
              /\ steps' = Append(steps, "click_title_navigated")
              /\ UNCHANGED handles
           \/ /\ steps' = Append(steps, "click_title_in_page")
              /\ UNCHANGED <<handles, hist>>
        /\ pc' = "a_current_handle"
        /\ UNCHANGED <<out, focus, applied, submitted, origWin, exc>>
     \/ RaiseInApply
  /\ ApplyFrame

\* Latest line 192 (20240921020456 line 440): original_window is bound here,
\* after the click.
ApplyCurrentHandle ==
  /\ pc = "a_current_handle"
  /\ \/ /\ origWin' = focus
        /\ steps' = Append(steps, "current_window_handle")
        /\ pc' = "a_switch"
        /\ UNCHANGED <<out, browserVars, applied, submitted, exc>>
     \/ RaiseInApply
  /\ ApplyFrame

\* Latest lines 193-200 (20240921020456 lines 441-450).
ApplySwitch ==
  /\ pc = "a_switch"
  /\ \/ /\ IF Cardinality(handles) > 1
           THEN /\ focus' = CHOOSE w \in handles : w # origWin
                /\ steps' = Append(steps, "switch_to_new_window")
           ELSE /\ UNCHANGED focus
                /\ steps' = Append(steps, "same_window")
        /\ pc' = "a_wait_details"
        /\ UNCHANGED <<out, handles, hist, applied, submitted, origWin, exc>>
     \/ RaiseInApply
  /\ ApplyFrame

\* Latest line 204 (20240921020456 line 454).
ApplyWaitDetails ==
  SimpleStep("a_wait_details", "job_details",
             IF rev = Latest THEN "a_find_host" ELSE "a_has_apply_now")

\* Latest line 210.
ApplyFindHost == SimpleStep("a_find_host", "find_host", "a_scroll_host")

\* Latest line 211.
ApplyScrollHost == SimpleStep("a_scroll_host", "scroll_host", "a_shadow_root")

\* Latest line 215.
ApplyShadowRoot == SimpleStep("a_shadow_root", "shadow_root", "a_find_button")

\* Latest line 216.
ApplyFindButton == SimpleStep("a_find_button", "find_button", "a_click_easy")

\* Latest lines 219-227: the native click, or the JavaScript click after any
\* failure of it.  The site may answer by navigating to the application page.
ApplyClickEasy ==
  /\ pc = "a_click_easy"
  /\ \/ /\ \/ hist' = [hist EXCEPT ![focus] = Append(@, "apply")]
           \/ UNCHANGED hist
        /\ steps' = Append(steps, "click_easy_apply")
        /\ pc' = "a_wait_url"
        /\ UNCHANGED <<out, handles, focus, applied, submitted, origWin, exc>>
     \/ RaiseInApply
  /\ ApplyFrame

\* ApplyWaitUrl with the timeout swallowed: the flow goes on without the URL.
ApplyWaitUrlIgnoresTimeout ==
  /\ pc = "a_wait_url"
  /\ \/ /\ Top(hist[focus]) = "apply"
        /\ steps' = Append(steps, "url_apply")
        /\ pc' = "a_wait_next"
        /\ UNCHANGED <<out, browserVars, applied, submitted, origWin, exc>>
     \/ /\ Top(hist[focus]) # "apply"
        /\ pc' = "a_wait_next"
        /\ UNCHANGED <<out, browserVars, applied, submitted, origWin, steps, exc>>
     \/ RaiseInApply
  /\ ApplyFrame

\* Latest line 231: wait.until(EC.url_contains('/apply')) succeeds when the
\* focused window shows the application page and times out otherwise.
ApplyWaitUrl ==
  /\ pc = "a_wait_url"
  /\ \/ /\ Top(hist[focus]) = "apply"
        /\ steps' = Append(steps, "url_apply")
        /\ pc' = "a_wait_next"
        /\ UNCHANGED <<out, browserVars, applied, submitted, origWin, exc>>
     \/ RaiseInApply
  /\ ApplyFrame

\* Latest line 237.
ApplyWaitNext == SimpleStep("a_wait_next", "wait_next", "a_click_next")

\* Latest line 242.
ApplyClickNext == SimpleStep("a_click_next", "click_next", "a_wait_submit")

\* Latest line 249.
ApplyWaitSubmit == SimpleStep("a_wait_submit", "wait_submit", "a_click_submit")

\* ApplyClickSubmit without applied_jobs.add(job_title).
ApplyClickSubmitForgetsAdd ==
  /\ pc = "a_click_submit"
  /\ \/ /\ submitted' = [submitted EXCEPT ![jobTitle] = @ + 1]
        /\ out' = out \cup {"Successfully applied"}
        /\ steps' = Append(steps, "click_submit")
        /\ pc' = "a_cleanup"
        /\ UNCHANGED <<browserVars, applied, origWin, exc>>
     \/ RaiseInApply
  /\ ApplyFrame

\* Latest lines 252-257: submit_button.click(), then applied_jobs.add.
ApplyClickSubmit ==
  /\ pc = "a_click_submit"
  /\ \/ /\ submitted' = [submitted EXCEPT ![jobTitle] = @ + 1]
        /\ out' = out \cup {"Successfully applied"}
        /\ applied' = applied \cup {jobTitle}
        /\ steps' = Append(steps, "click_submit")
        /\ pc' = "a_cleanup"
        /\ UNCHANGED <<browserVars, origWin, exc>>
     \/ RaiseInApply
  /\ ApplyFrame

\* 20240921020456 lines 459-464 and 340-384: has_apply_now clicks the button
\* and returns True, or catches the failure and returns False, after which
\* apply_to_job returns; the screenshot call in its handlers can itself raise.
ApplyHasApplyNow ==
  /\ pc = "a_has_apply_now"
  /\ \/ /\ steps' = Append(steps, "click_easy_apply")
        /\ pc' = "a_login_modal"
        /\ UNCHANGED <<out, browserVars, applied, submitted, origWin, exc>>
     \/ /\ out' = out \cup {"Easy Apply button not found"}
        /\ ReturnFromApply
     \/ RaiseInApply
  /\ ApplyFrame

\* 20240921020456 lines 466-467 and 166-219: handle_login_modal catches every
\* exception of its own steps.
ApplyLoginModal ==
  /\ pc = "a_login_modal"
  /\ steps' = Append(steps, "login_modal")
  /\ pc' = "a_wait_modal"
  /\ UNCHANGED <<out, browserVars, applied, submitted, origWin, exc>>
  /\ ApplyFrame

\* 20240921020456 lines 472-480: a TimeoutException returns, anything else
\* goes to the outer except clauses.
ApplyWaitModal ==
  /\ pc = "a_wait_modal"
  /\ \/ /\ steps' = Append(steps, "apply_modal")
        /\ pc' = "a_upload"
        /\ UNCHANGED <<out, browserVars, applied, submitted, origWin, exc>>
     \/ /\ out' = out \cup {"Apply modal did not appear"}
        /\ ReturnFromApply
     \/ RaiseInApply
  /\ ApplyFrame

\* 20240921020456 lines 483-493.
ApplyUpload ==
  /\ pc = "a_upload"
  /\ \/ /\ steps' = Append(steps, "upload_resume")
        /\ pc' = "a_submit"
        /\ UNCHANGED <<out, browserVars, applied, submitted, origWin, exc>>
     \/ /\ out' = out \cup {"Resume upload field not found"}
        /\ ReturnFromApply
     \/ RaiseInApply
  /\ ApplyFrame

\* ApplySubmit whose TimeoutException handler does not return.
ApplySubmitFallsThrough ==
  /\ pc = "a_submit"
  /\ \/ /\ submitted' = [submitted EXCEPT ![jobTitle] = @ + 1]
        /\ out' = out \cup {"Successfully applied"}
        /\ applied' = applied \cup {jobTitle}
        /\ steps' = Append(steps, "click_submit")
        /\ pc' = "a_cleanup"
        /\ UNCHANGED <<browserVars, origWin, exc>>
     \/ /\ out' = out \cup {"Submit button not found or not clickable"}
        /\ applied' = applied \cup {jobTitle}
        /\ pc' = "a_cleanup"
        /\ UNCHANGED <<browserVars, submitted, origWin, steps, exc>>
     \/ RaiseInApply
  /\ ApplyFrame

\* 20240921020456 lines 496-509: wait for Submit and click it; a
\* TimeoutException returns; after the click applied_jobs.add(job_title).
ApplySubmit ==
  /\ pc = "a_submit"
  /\ \/ /\ submitted' = [submitted EXCEPT ![jobTitle] = @ + 1]
        /\ out' = out \cup {"Successfully applied"}
        /\ applied' = applied \cup {jobTitle}
        /\ steps' = Append(steps, "click_submit")
        /\ pc' = "a_cleanup"
        /\ UNCHANGED <<browserVars, origWin, exc>>
     \/ /\ out' = out \cup {"Submit button not found or not clickable"}
        /\ ReturnFromApply
     \/ RaiseInApply
  /\ ApplyFrame

\* Latest lines 259-267 (20240921020456 lines 511-521): with more than one
\* window open, close the focused one and switch to original_window; otherwise
\* a single driver.back().  switch_to.window raises NoSuchWindowException for a
\* handle that is no longer open.
ApplyCleanup ==
  /\ pc = "a_cleanup"
  /\ IF Cardinality(handles) > 1
     THEN /\ handles' = handles \ {focus}
          /\ hist' = [hist EXCEPT ![focus] = <<>>]
          /\ IF origWin \in handles'
             THEN /\ focus' = origWin
                  /\ pc' = "a_finally"
                  /\ UNCHANGED exc
             ELSE /\ exc' = "OtherException"
                  /\ pc' = "a_except"
                  /\ UNCHANGED focus
          /\ UNCHANGED out
     ELSE /\ hist' = [hist EXCEPT ![focus] = Pop(@)]
          /\ out' = out \cup {"Navigated back to job listings"}
          /\ pc' = "a_finally"
          /\ UNCHANGED <<handles, focus, exc>>
  /\ steps' = Append(steps, "cleanup")
  /\ UNCHANGED <<applied, submitted, origWin>>
  /\ ApplyFrame

\* Latest lines 269-277 (20240921020456 lines 523-534): both except clauses
\* print, take screenshots (whose own failures are caught) and fall through.
ApplyExcept ==
  /\ pc = "a_except"
  /\ out' = out \cup {"Error applying"}
  /\ exc' = "none"
  /\ pc' = "a_finally"
  /\ UNCHANGED <<browserVars, applied, submitted, origWin, steps>>
  /\ ApplyFrame

\* ApplyFinally without the finally clause's body.
ApplyFinallyLeavesWindow ==
  /\ pc = "a_finally"
  /\ pc' = "pause"
  /\ UNCHANGED <<out, browserVars, applied, submitted, origWin, steps, exc>>
  /\ ApplyFrame

\* Latest lines 279-284 (20240921020456 lines 536-542): with more than one
\* window open, close the focused one and switch to original_window.  The name
\* original_window is unbound when the try block was left before line 192
\* (UnboundLocalError), and the switch raises NoSuchWindowException when the
\* window just closed was the original one.  Both leave apply_to_job and reach
\* main's handler.
ApplyFinally ==
  /\ pc = "a_finally"
  /\ IF Cardinality(handles) > 1
     THEN /\ handles' = handles \ {focus}
          /\ hist' = [hist EXCEPT ![focus] = <<>>]
          /\ IF origWin = Unbound
             THEN /\ RaiseInMain("UnboundLocalError")
                  /\ UNCHANGED focus
             ELSE IF origWin \notin handles'
             THEN /\ RaiseInMain("NoSuchWindowException")
                  /\ UNCHANGED focus
             ELSE /\ focus' = origWin
                  /\ pc' = "pause"
                  /\ UNCHANGED exc
     ELSE /\ pc' = "pause"
          /\ UNCHANGED <<browserVars, exc>>
  /\ UNCHANGED <<out, applied, submitted, origWin, steps>>
  /\ ApplyFrame

\* ------------------------------------------------ revision 20240921120949
Rev1209 == "r20240921120949"

\* 20240921120949 lines 27-29: the keys read, in order.
Keys1209 == <<"SearchTerms", "ResumePath", "PauseDuration">>

\* 20240921120949 lines 27-35: nothing is caught; then the resume path check.
Rev1209ConfigResult(c, isFile) ==
  IF FirstFailure(c, Keys1209) # "ok" THEN "crash"
  ELSE IF ~isFile THEN "resume_missing"
  ELSE "ok"

Init1209 ==
  /\ rev = Rev1209
  /\ cfg \in Configs(Keys1209)
  /\ resumeIsFile \in BOOLEAN
  /\ pc = "load_config"
  /\ exitStatus = -1
  /\ out = {}
  /\ drivers = 0
  /\ quitCalls = 0
  /\ log = <<>>
  /\ handles = {}
  /\ focus = "none"
  /\ hist = NoHistory
  /\ cards = <<>>
  /\ idx = 0
  /\ applied = {}
  /\ submitted = [t \in Titles |-> 0]
  /\ jobTitle = NoTitle
  /\ origWin = Unbound
  /\ exc = "none"
  /\ entry = NoEntry
  /\ steps = <<>>

\* 20240921120949 lines 24-35.
LoadConfig1209 ==
  /\ pc = "load_config"
  /\ LET r == Rev1209ConfigResult(cfg, resumeIsFile)
     IN \/ /\ r = "ok"
           /\ pc' = "init_driver"
           /\ log' = Append(log, "config")
           /\ UNCHANGED <<exitStatus, out>>
        \/ /\ r = "resume_missing"
           /\ out' = out \cup {"Resume file not found"}
           /\ Exit(1)
           /\ UNCHANGED log
        \/ /\ r = "crash"
           /\ out' = out \cup {"Traceback"}
           /\ Exit(1)
           /\ UNCHANGED log
  /\ UNCHANGED <<cfgVars, drivers, quitCalls, browserVars, loopVars, callVars, exc>>

\* 20240921120949 lines 525-526 and 452-455: main starts with an empty
\* applied_jobs set and has no login step.
EnterMain1209 ==
  /\ pc = "entry_point"
  /\ applied' = {}
  /\ log' = Append(log, "main")
  /\ pc' = "search"
  /\ UNCHANGED <<cfgVars, exitStatus, out, drivers, quitCalls, browserVars,
                 cards, idx, submitted, callVars, exc>>

\* 20240921120949 lines 355-360 and 238-286: has_apply_now clicks the button
\* and returns True, or catches the failure and returns False, after which
\* apply_to_job returns; the screenshot call in its handlers can itself raise.
ApplyHasApplyNow1209 ==
  /\ pc = "a_has_apply_now"
  /\ \/ /\ steps' = Append(steps, "click_easy_apply")
        /\ pc' = "b_click_apply_now"
        /\ UNCHANGED <<out, browserVars, applied, submitted, origWin, exc>>
     \/ /\ out' = out \cup {"Easy Apply button not found"}
        /\ ReturnFromApply
     \/ RaiseInApply
  /\ ApplyFrame

\* 20240921120949 lines 362-366: find the "Apply Now" button and click it.
ApplyClickApplyNow == SimpleStep("b_click_apply_now", "click_apply_now", "b_wait_login_modal")

\* 20240921120949 line 371.
ApplyWaitLoginModal == SimpleStep("b_wait_login_modal", "login_modal", "b_wait_url")

\* 20240921120949 line 377: wait.until(EC.url_contains("dice.com/apply")); the
\* wait succeeds once the user has logged in and the site has navigated the
\* focused window to the application form, and times out otherwise.
ApplyWaitFormUrl ==
  /\ pc = "b_wait_url"
  /\ \/ /\ hist' = [hist EXCEPT ![focus] = Append(@, "apply")]
        /\ steps' = Append(steps, "url_apply")
        /\ pc' = "b_click_next"
        /\ UNCHANGED <<out, handles, focus, applied, submitted, origWin, exc>>
     \/ RaiseInApply
  /\ ApplyFrame

\* 20240921120949 lines 382 and 417-449: click_next_button.  The button is
\* clicked (natively, or by JavaScript after any failure of the native click);
\* or the wait for it times out; or any other exception is raised.  Both
\* except clauses print, take a screenshot and fall off the end of the
\* function, so every outcome returns None to apply_to_job.
ClickNextButton ==
  /\ pc = "b_click_next"
  /\ \/ /\ steps' = Append(steps, "click_next")
        /\ out' = out \cup {"Next button clicked"}
     \/ /\ out' = out \cup {"Timeout: Next button did not become clickable"}
        /\ UNCHANGED steps
     \/ /\ out' = out \cup {"Unexpected error when clicking Next button"}
        /\ UNCHANGED steps
  /\ pc' = "b_record"
  /\ UNCHANGED <<browserVars, applied, submitted, origWin, exc>>
  /\ ApplyFrame

\* 20240921120949 lines 384-386: log and print 'Successfully applied', then
\* applied_jobs.add(job_title).
ApplyRecordApplied ==
  /\ pc = "b_record"
  /\ out' = out \cup {"Successfully applied"}
  /\ applied' = applied \cup {jobTitle}
  /\ steps' = Append(steps, "record_applied")
  /\ pc' = "a_cleanup"
  /\ UNCHANGED <<browserVars, submitted, origWin, exc>>
  /\ ApplyFrame

\* The steps of 20240921120949.  Where its text agrees with the other two
\* revisions the same actions are used: lines 56-68 (InitWebDriver), 456-473
\* (MainSearch), 113-236 (ActivateEasyApplyFilter), 481-486 (FindJobCards),
\* 488-514 (LoopNext), 511 (Pause), 518-523 (MainExcept, MainFinally),
\* 312-352 (ApplyCheck .. ApplyWaitDetails), 388-415 (ApplyCleanup,
\* ApplyExcept, ApplyFinally).
Next1209 ==
  \/ LoadConfig1209
  \/ InitWebDriver
  \/ EnterMain1209
  \/ MainSearch
  \/ ActivateEasyApplyFilter
  \/ FindJobCards
  \/ LoopNext
  \/ Pause
  \/ MainExcept
  \/ MainFinally
  \/ ApplyCheck
  \/ ApplyScroll
  \/ ApplyFindTitle
  \/ ApplyWaitTitle
  \/ ApplyClickTitle
  \/ ApplyCurrentHandle
  \/ ApplySwitch
  \/ ApplyWaitDetails
  \/ ApplyHasApplyNow1209
  \/ ApplyClickApplyNow
  \/ ApplyWaitLoginModal
  \/ ApplyWaitFormUrl
  \/ ClickNextButton
  \/ ApplyRecordApplied
  \/ ApplyCleanup
  \/ ApplyExcept
  \/ ApplyFinally

Spec1209 == Init1209 /\ [][Next1209]_vars

Next ==
  \/ LoadConfig
  \/ InitWebDriver
  \/ EnterMain
  \/ LoginStep
  \/ LoginFailed
  \/ MainSearch
  \/ ActivateEasyApplyFilter
  \/ FindJobCards
  \/ LoopNext
  \/ Pause
  \/ MainExcept
  \/ MainFinally
  \/ ApplyCheck
  \/ ApplyScroll
  \/ ApplyFindTitle
  \/ ApplyWaitTitle
  \/ ApplyClickTitle
  \/ ApplyCurrentHandle
  \/ ApplySwitch
  \/ ApplyWaitDetails
  \/ ApplyFindHost
  \/ ApplyScrollHost
  \/ ApplyShadowRoot
  \/ ApplyFindButton
  \/ ApplyClickEasy
  \/ ApplyWaitUrl
  \/ ApplyWaitNext
  \/ ApplyClickNext
  \/ ApplyWaitSubmit
  \/ ApplyClickSubmit
  \/ ApplyHasApplyNow
  \/ ApplyLoginModal
  \/ ApplyWaitModal
  \/ ApplyUpload
  \/ ApplySubmit
  \/ ApplyCleanup
  \/ ApplyExcept
  \/ ApplyFinally

Spec == Init /\ [][Next]_vars

\* ------------------------------------------------------- history predicates
Logged(m) == m \in Range(log)
Did(st) == st \in Range(steps)

\* Milestone a was logged before milestone b.
Before(a, b) ==
  \E i, j \in 1..Len(log) : i < j /\ log[i] = a /\ log[j] = b

\* apply_to_job has been called at least once.
ApplyCalled == entry # NoEntry

ApplyPcs ==
  {"a_check", "a_scroll", "a_find_title", "a_wait_title", "a_click_title",
   "a_current_handle", "a_switch", "a_wait_details", "a_find_host",
   "a_scroll_host", "a_shadow_root", "a_find_button", "a_click_easy",
   "a_wait_url", "a_wait_next", "a_click_next", "a_wait_submit",
   "a_click_submit", "a_has_apply_now", "a_login_modal", "a_wait_modal",
   "a_upload", "a_submit", "a_cleanup", "a_except", "a_finally"}

\* Exceptions that leave apply_to_job through its finally clause.
Propagated == {"UnboundLocalError", "NoSuchWindowException"}

\* apply_to_job has just returned to main's loop.
Returned == pc = "pause"

\* The body of main's try block has been entered.
BodyEntered ==
  \/ pc \in ApplyPcs \cup {"search", "filter", "find_cards", "loop", "pause",
                           "main_except", "main_finally"}
  \/ Logged("search")
  \/ "An error occurred in main()" \in out

\* --------------------------------------------------------------------- C1
\* C1 as stated: in every revision, whenever apply_to_job has been called, a
\* login step and after it a filter step have completed.
C1_LoginThenFilterEveryRevision ==
  ApplyCalled => Before("login", "filter")

\* C1 (amended): when apply_to_job has been called, the completed steps are, in
\* order, config load, browser launch, login, search, filter, card lookup in
\* 20240921020456, and the same without any login step in the latest revision.
C1_StepOrder ==
  ApplyCalled =>
    log = IF rev = Rev0921
          THEN <<"config", "browser", "main", "login", "search", "filter", "cards">>
          ELSE <<"config", "browser", "main", "search", "filter", "cards">>

C1_Witness ==
  /\ rev = Latest
  /\ pc = "a_scroll"
  /\ Before("search", "filter")
  /\ ~Logged("login")

\* --------------------------------------------------------------------- C2
C2_State ==
  rev = Rev0921 =>
    /\ BodyEntered => Logged("login")
    /\ pc = "login_failed" => exc \in LoginCaught /\ ~BodyEntered
    /\ "Error during login" \in out =>
         /\ pc = "exited"
         /\ exitStatus = 1
         /\ quitCalls = 1
         /\ handles = {}
         /\ ~BodyEntered

C2_Step ==
  (rev = Rev0921 /\ pc = "login_failed") =>
    /\ pc' = "exited"
    /\ exitStatus' = 1
    /\ quitCalls' = quitCalls + 1

\* C2: in 20240921020456 the body of main is entered only after login_to_dice
\* completed, and a login step that raises NoSuchElementException,
\* TimeoutException or another WebDriverException quits the browser and ends
\* the process with status 1 without entering main's body.
C2_LoginGate == []C2_State /\ [][C2_Step]_vars

C2_Witness ==
  /\ rev = Rev0921
  /\ pc = "exited"
  /\ "Error during login" \in out
  /\ Did("click_continue")

C4_NeverPropagates ==
  rev = Latest => ~(pc = "main_except" /\ exc \in Propagated)

\* --------------------------------------------------------------------- C5
\* C5: in the latest revision a call of apply_to_job with a title already in
\* applied_jobs performs no browser step, leaves the windows, the focus, the
\* page and applied_jobs as they were, and returns normally.
C5_SkipIsNoOp ==
  (rev = Latest /\ ApplyCalled /\ jobTitle \in entry.applied) =>
    /\ pc \in ApplyPcs \cup {"pause"} =>
         /\ pc \in {"a_check", "a_finally", "pause"}
         /\ steps = <<>>
         /\ handles = entry.handles
         /\ focus = entry.focus
         /\ hist = entry.hist
         /\ applied = entry.applied
    /\ pc = "main_except" => exc \notin Propagated

C5_Witness ==
  /\ rev = Latest
  /\ Returned
  /\ jobTitle \in entry.applied
  /\ "Skipping already applied job" \in out

\* --------------------------------------------------------------------- C6
\* C6: in the latest revision the Submit button is clicked successfully at most
\* once per job title during one run of main.
C6_AtMostOneSubmitPerTitle ==
  rev = Latest => \A t \in Titles : submitted[t] <= 1

C6_Witness ==
  /\ rev = Latest
  /\ Returned
  /\ idx = 2
  /\ cards[1].hasTitle
  /\ cards[2] = cards[1]
  /\ submitted[cards[1].title] = 1
  /\ steps = <<>>

\* --------------------------------------------------------------------- C7
\* C7: in the latest revision, when the job opened in the same window through
\* listings -> job details -> application page and the application succeeded,
\* the window shows the job listings page when apply_to_job returns.
C7_BackOnListings ==
  (/\ rev = Latest
   /\ Returned
   /\ Did("click_title_navigated")
   /\ Did("same_window")
   /\ Did("click_submit")
   /\ Did("cleanup"))
    => Top(hist[focus]) = "listings"

\* --------------------------------------------------------------------- C8
\* C8: in the latest revision, once main has been entered the process ends
\* only after driver.quit() has been called.
C8_QuitBeforeEnd ==
  (rev = Latest /\ pc = "exited" /\ Logged("main")) =>
    /\ quitCalls >= 1
    /\ handles = {}

C8_Witness ==
  /\ rev = Latest
  /\ pc = "exited"
  /\ Logged("main")
  /\ exitStatus = 1
  /\ quitCalls = 2

\* --------------------------------------------------------------------- C9
PauseKeys == {"PauseDurationMin", "PauseDurationMax"}
TextKeys == {"SearchTerms", "Email", "Password"}

\* The file lacks a pause key or gives one a value that is not an integer.
BadPause(c) ==
  \E k \in PauseKeys : k \notin DOMAIN c \/ ~PyInt(c[k]).ok

ConfigLoaded == pc # "load_config"

\* C9 as stated: such a file always yields the 'Configuration error' message
\* and exit status 1 before a WebDriver exists.
C9_AlwaysConfigurationError ==
  (rev = Latest /\ BadPause(cfg) /\ ConfigLoaded) =>
    /\ pc = "exited"
    /\ exitStatus = 1
    /\ drivers = 0
    /\ "Configuration error" \in out

\* C9 (amended): such a file always ends the script with status 1 before a
\* WebDriver exists; the 'Configuration error' message is printed exactly when
\* SearchTerms, Email and Password could be read and the first failing pause
\* key raised KeyError or ValueError, and a traceback is printed otherwise.
C9_ExitBeforeDriver ==
  (rev = Latest /\ BadPause(cfg) /\ ConfigLoaded) =>
    /\ pc = "exited"
    /\ exitStatus = 1
    /\ drivers = 0
    /\ "Configuration error" \in out <=>
         /\ \A k \in TextKeys : Lookup(cfg, k) = "ok"
         /\ FirstFailure(cfg, <<"PauseDurationMin", "PauseDurationMax">>)
              \in {"KeyError", "ValueError"}
    /\ "Configuration error" \notin out <=> "Traceback" \in out

C9_Witness ==
  /\ rev = Latest
  /\ ConfigLoaded
  /\ "PauseDurationMin" \in DOMAIN cfg
  /\ "PauseDurationMax" \in DOMAIN cfg
  /\ ~PyInt(cfg["PauseDurationMax"]).ok
  /\ "Configuration error" \in out
  /\ exitStatus = 1

\* -------------------------------------------------------------------- C10
\* C10: in both revisions applied_jobs holds a title only after a Submit click
\* for that title completed, and a call of apply_to_job that has not clicked
\* Submit leaves applied_jobs as it was at the call.
C10_AppliedOnlyAfterSubmit ==
  /\ \A t \in applied : submitted[t] >= 1
  /\ (ApplyCalled /\ pc \in ApplyPcs \cup {"pause"} /\ ~Did("click_submit"))
       => applied = entry.applied

C10_Witness ==
  /\ rev = Rev0921
  /\ Returned
  /\ Did("upload_resume")
  /\ ~Did("click_submit")
  /\ "Submit button not found or not clickable" \in out
  /\ applied = {}

\* -------------------------------------------------------------------- C11
\* C11: in 20240921120949 a call of apply_to_job adds the job title to
\* applied_jobs (and logs 'Successfully applied') only if click_next_button
\* clicked the "Next" button.
C11_RecordedOnlyAfterNext ==
  (rev = Rev1209 /\ ApplyCalled /\ applied # entry.applied) => Did("click_next")

\* -------------------------------------------------------------------- C12
\* Step a was completed before step b in the current call of apply_to_job.
StepBefore(a, b) ==
  \E i, j \in 1..Len(steps) : i < j /\ steps[i] = a /\ steps[j] = b

Once(a) == Cardinality({i \in 1..Len(steps) : steps[i] = a}) <= 1

\* C12: in the latest revision, within one call of apply_to_job, Submit is
\* clicked only after Next was clicked, Next only after the URL contained
\* '/apply', that wait succeeds only after the Easy Apply button was clicked,
\* and that click happens only after the job-details element was present.
C12_ApplicationStepOrder ==
  (rev = Latest /\ ApplyCalled) =>
    /\ Did("click_submit") => StepBefore("click_next", "click_submit")
    /\ Did("click_next") => StepBefore("url_apply", "click_next")
    /\ Did("url_apply") => StepBefore("click_easy_apply", "url_apply")
    /\ Did("click_easy_apply") => StepBefore("job_details", "click_easy_apply")
    /\ \A a \in {"click_submit", "click_next", "url_apply", "click_easy_apply",
                 "job_details"} : Once(a)

C12_Witness ==
  /\ rev = Latest
  /\ pc = "a_cleanup"
  /\ Did("click_submit")
  /\ StepBefore("job_details", "click_submit")

\* -------------------------------------------------------------------- C13
FilterFailed == "Error activating Easy Apply filter" \in out

\* C13: in the latest revision a failure of activate_easy_apply_filter ends the
\* process with status 1; main's except Exception handler does not run, no
\* job card is looked up or processed, nothing is submitted and 'Job
\* application process completed.' is not printed.
C13_FilterFailureExits ==
  (rev = Latest /\ FilterFailed) =>
    /\ pc \in {"main_finally", "exited"}
    /\ pc = "main_finally" => exc = "SystemExit"
    /\ pc = "exited" => exitStatus = 1
    /\ "An error occurred in main()" \notin out
    /\ "Job application process completed." \notin out
    /\ ~Logged("cards")
    /\ ~ApplyCalled
    /\ applied = {}
    /\ \A t \in Titles : submitted[t] = 0

C13_Witness ==
  /\ rev = Latest
  /\ FilterFailed
  /\ pc = "exited"
  /\ exitStatus = 1
  /\ Logged("search")

\* -------------------------------------------------------------------- C14
\* The loop is about to visit a card (Latest line 316).
AtLoopHead == pc = "loop" /\ idx < Len(cards)

C14_State ==
  rev = Latest =>
    /\ idx <= Len(cards)
    /\ "Job application process completed." \in out => idx = Len(cards)
    /\ pc \in ApplyPcs \cup {"pause"} =>
         /\ idx >= 1
         /\ cards[idx].hasTitle
         /\ jobTitle = cards[idx].title

C14_Step ==
  rev = Latest =>
    /\ Logged("cards") => cards' = cards
    /\ idx' # idx => AtLoopHead /\ idx' = idx + 1
    /\ AtLoopHead => idx' = idx + 1
    /\ (AtLoopHead /\ ~cards[idx + 1].hasTitle /\ pc' # "main_except") =>
         /\ pc' = "loop"
         /\ "Title element not found." \in out'
         /\ UNCHANGED <<applied, submitted, entry, steps, jobTitle, browserVars>>

\* C14: in the latest revision a card whose title link is not found
\* (NoSuchElementException) is skipped: apply_to_job is not called for it, no
\* pause is taken, applied_jobs and the browser are left alone and the loop
\* goes on with the next card; the cards of the one find_elements call are
\* visited one after the other in list order, none twice, apply_to_job only
\* ever runs for the current, titled card, and the loop completes only after
\* all have been visited.
C14_MissingTitleSkipped == []C14_State /\ [][C14_Step]_vars

C14_Witness ==
  /\ rev = Latest
  /\ pc = "a_check"
  /\ idx = 2
  /\ ~cards[1].hasTitle
  /\ cards[2].hasTitle
  /\ "Title element not found." \in out
  /\ entry.applied = {}
====
